---- MODULE Spec2Model ----
(***************************************************************************)
(* Model of the request queue of tatar04k/prizemlyator:                    *)
(*   src/src/services/queue_service.py  QueueService, queue_aware_generation*)
(*   src/src/ui/app.py, src/src/graph/.ipynb_checkpoints/nodes-checkpoint.py*)
(*     the session threads that call the language model directly           *)
(*   src/src/utils/text_utils.py  execute_generated_code (ExecSpec)        *)
(*                                                                         *)
(* QueueService takes no lock of its own: the only atomic operations are   *)
(* those of queue.Queue (put/get) and single dict/attribute accesses, so   *)
(* every thread is modelled by a program counter that advances one source  *)
(* statement at a time.  Program counters are named after source lines.    *)
(*                                                                         *)
(* Strings the code writes in Russian are spelled in ASCII:                *)
(*   "not_found"  = "Запрос не найден"     "active"   = "Обрабатывается"   *)
(*   "done"       = "Завершено"            "failed"   = "Ошибка"           *)
(*   "in_queue"   = "В очереди (позиция N)"                                *)
(*   "unknown_error" = "Неизвестная ошибка"                                *)
(*   "unknown_type"  = "Неизвестный тип запроса: <type>"                   *)
(***************************************************************************)
EXTENDS Integers, Sequences, FiniteSets, TLC

\* ---- bounds ----
MaxRequests == 2        \* calls of queue_aware_generation in one run

\* one session thread per call, numbered in the order of their queue.put;
\* the QueueItem a call builds is known by the number of the call
Callers    == 1..MaxRequests
\* the values str(uuid.uuid4())[:8] takes in a run
RequestIds == 1..MaxRequests
\* add_to_queue starts at most one thread per call and a run begins with at
\* most one thread left from earlier calls, so this many thread slots never
\* run out; a slot is free again once its thread has ended
Threads    == 1..(MaxRequests + 1)

\* None of Python; also "key absent from the dict" where the code reads with .get
None == 0
\* self.worker_thread when the Thread object it holds has ended
Ended == -1

\* request types dispatched by _execute_request
KnownTypes == {"generate_work_plan_code", "generate_drilling_code",
               "generate_measurement_code", "generate_gas_utilization_code",
               "generate_final_response", "generate_documentation_response"}

\* the eight operations of the generation backend: those of KnownTypes and
\* AIService.master_router_decision, AIService.generate_combined_analysis
BoundaryOperations == KnownTypes \cup {"master_router_decision", "generate_combined_analysis"}

\* request types the sessions of the model submit
InputTypes == BoundaryOperations \cup {"unknown_op"}

\* the request type the nodes submit in a plain run
PlainTypes == {"generate_final_response"}

\* the text the language model produces for the item of call r
Text(r) == r

VARIABLES
    queue,               \* self.queue: FIFO of queue items (by number of the call)
    processing_status,   \* self.processing_status: request_id -> record
    current_processing,  \* self.current_processing
    worker_thread,       \* self.worker_thread: None, a running thread, or Ended
    is_processing,       \* self.is_processing
    request_data,        \* call -> (request_id, session_id, type) of the QueueItem it built
    wpc,                 \* worker thread -> program counter
    queue_item,          \* worker thread -> local queue_item (None if unbound)
    result,              \* worker thread -> local result (None if unbound)
    e,                   \* worker thread -> text of the exception being handled
    spc,                 \* session thread -> program counter
    ret,                 \* session thread -> outcome of its queue_aware_generation
    probe,               \* session thread -> answer to its get_queue_position of an unissued id
    calls,               \* call -> number of _execute_request invocations for its item
    asked,               \* session thread -> the id it has asked get_result about
    behind,              \* call -> the ids that were 'processing', with nothing else
                         \* pending, when its item was put on the queue
    submitted,           \* the request types the sessions of this run submit
    uuid_repeats,        \* whether uuid4()[:8] may take a value it took before in this run
    sandbox              \* the run of execute_generated_code that is followed

vars == <<queue, processing_status, current_processing, worker_thread,
          is_processing, request_data, wpc, queue_item, result, e,
          spc, ret, probe, asked, calls, behind, submitted, uuid_repeats, sandbox>>

\* what the queue never writes
envvars == <<submitted, uuid_repeats, sandbox>>

svars == <<spc, ret>>
wvars == <<wpc, queue_item, result, e>>

\* number of QueueItems built so far
issued == Cardinality(DOMAIN request_data)

\* the request id of the QueueItem of call c (line 32), None before the call
RidOf(c) == IF c \in DOMAIN request_data THEN request_data[c].request_id ELSE None

\* the ids generated so far
IssuedIds == {RidOf(c) : c \in DOMAIN request_data}

\* line 32: str(uuid.uuid4())[:8] keeps 32 bits of the UUID, so the value is
\* new or, when the run allows it, one that was generated before
uuid4_8 == IF uuid_repeats THEN 1..(Cardinality(IssuedIds) + 1)
           ELSE {Cardinality(IssuedIds) + 1}

\* ---- helpers ----
Terminal == {"completed", "error"}

\* the ids whose record has status 'processing'
Processing == {r \in DOMAIN processing_status : processing_status[r].status = "processing"}

\* threading.Thread.is_alive() of the object held in self.worker_thread
is_alive(th) == th \in Threads /\ wpc[th] # "none"

\* the slot a newly created thread takes
FreeSlot == CHOOSE t \in Threads : wpc[t] = "none" /\ \A u \in Threads : wpc[u] = "none" => t <= u

\* self.worker_thread after thread t has ended
AfterEnd(t) == IF worker_thread = t THEN Ended ELSE worker_thread

\* the QueueItem built at lines 33-39, as the dict that line 42 registers
QueueItem(c) ==
    [request_id |-> RidOf(c), session_id |-> request_data[c].session_id,
     type |-> request_data[c].type,
     status |-> "waiting", result |-> None, error |-> "None"]

\* status of the request of call r as the status table has it: its dict
\* carries 'waiting' from line 38 on, whether or not line 42 has registered it yet
StatusOf(r) ==
    IF RidOf(r) \in DOMAIN processing_status
    THEN processing_status[RidOf(r)].status ELSE "waiting"

RECURSIVE IndexOf(_, _, _)
\* lines 73-76: 1-based index of the first queue entry with this id, 0 if none
IndexOf(q, rid, i) ==
    IF i > Len(q) THEN 0
    ELSE IF RidOf(q[i]) = rid THEN i
    ELSE IndexOf(q, rid, i + 1)

\* get_queue_position without the membership test of lines 52-53, reading
\* the status with a default: an absent id falls through to the queue scan
get_queue_position_no_guard(rid) ==
    LET status == IF rid \in DOMAIN processing_status
                  THEN processing_status[rid].status ELSE "waiting" IN
    IF status = "processing" THEN [position |-> 0, status_text |-> "active"]
    ELSE IF status = "completed" THEN [position |-> -1, status_text |-> "done"]
    ELSE IF status = "error" THEN [position |-> -1, status_text |-> "failed"]
    ELSE [position |-> IndexOf(queue, rid, 1), status_text |-> "in_queue"]

\* QueueService.get_queue_position
get_queue_position(rid) ==
    IF rid \notin DOMAIN processing_status
    THEN [position |-> -1, status_text |-> "not_found"]
    ELSE LET status == processing_status[rid].status IN
         IF status = "processing" THEN [position |-> 0, status_text |-> "active"]
         ELSE IF status = "completed" THEN [position |-> -1, status_text |-> "done"]
         ELSE IF status = "error" THEN [position |-> -1, status_text |-> "failed"]
         ELSE [position |-> IndexOf(queue, rid, 1), status_text |-> "in_queue"]

\* get_result without the membership test of line 178: the subscript of
\* line 179 raises KeyError for an id that is not in the table
get_result_no_guard(rid) ==
    IF rid \notin DOMAIN processing_status
    THEN [kind |-> "raise", value |-> None, msg |-> "KeyError"]
    ELSE IF processing_status[rid].status = "completed"
    THEN [kind |-> "return", value |-> processing_status[rid].result, msg |-> "None"]
    ELSE IF processing_status[rid].status = "error"
    THEN [kind |-> "raise", value |-> None,
          msg |-> IF processing_status[rid].error = "None" THEN "unknown_error"
                  ELSE processing_status[rid].error]
    ELSE [kind |-> "return", value |-> None, msg |-> "None"]

\* QueueService.get_result
get_result(rid) ==
    IF rid \in DOMAIN processing_status /\ processing_status[rid].status = "completed"
    THEN [kind |-> "return", value |-> processing_status[rid].result, msg |-> "None"]
    ELSE IF rid \in DOMAIN processing_status /\ processing_status[rid].status = "error"
    THEN [kind |-> "raise", value |-> None,
          msg |-> IF processing_status[rid].error = "None" THEN "unknown_error"
                  ELSE processing_status[rid].error]
    ELSE [kind |-> "return", value |-> None, msg |-> "None"]

NoRet == [kind |-> "none", value |-> None, msg |-> "None"]

\* no get_queue_position answer taken yet
NoAnswer == [position |-> -2, status_text |-> "None"]

\* execute_generated_code is not running
NoRun == [pc |-> "none"]

\* a thread is inside a call into the language model pipeline
WorkerInModel(t) ==
    /\ wpc[t] = "l100"
    /\ request_data[queue_item[t]].type \in KnownTypes
SessionInModel(c) == spc[c] = "direct"

\* QueueService.__init__ and the threads before their first call
QueueInit ==
    /\ queue = <<>>
    /\ processing_status = <<>>
    /\ current_processing = None
    /\ worker_thread = None
    /\ is_processing = FALSE
    /\ request_data = <<>>
    /\ wpc = [t \in Threads |-> "none"]
    /\ queue_item = [t \in Threads |-> None]
    /\ result = [t \in Threads |-> None]
    /\ e = [t \in Threads |-> "None"]
    /\ spc = [c \in Callers |-> "idle"]
    /\ ret = [c \in Callers |-> NoRet]
    /\ probe = [c \in Callers |-> NoAnswer]
    /\ calls = [c \in Callers |-> 0]
    /\ behind = [c \in Callers |-> {}]
    /\ asked = [c \in Callers |-> None]

\* a plain run: the sessions submit the type the nodes submit, and no two
\* uuid prefixes coincide
Init ==
    /\ QueueInit
    /\ submitted = PlainTypes
    /\ uuid_repeats = FALSE
    /\ sandbox = NoRun

\* a run in which any operation of the backend boundary, or a tag that is
\* none of them, is submitted
OperationsInit ==
    /\ QueueInit
    /\ submitted = InputTypes
    /\ uuid_repeats = FALSE
    /\ sandbox = NoRun

\* the ids of two requests served before the run begins
EarlierIds == {MaxRequests + 2, MaxRequests + 3}

\* a manager that has served two requests before the run begins.  The
\* thread held in worker_thread has timed out at line 95, cleared
\* is_processing and ended; when the two requests had started a thread each
\* (lines 82-85 are not atomic), the other thread may still be waiting in
\* queue.get
WarmInit ==
    /\ queue = <<>>
    /\ processing_status =
          [r \in EarlierIds |->
              [request_id |-> r, session_id |-> 0, type |-> "generate_final_response",
               status |-> "completed", result |-> r, error |-> "None"]]
    /\ current_processing = None
    /\ worker_thread = Ended
    /\ is_processing = FALSE
    /\ request_data = <<>>
    /\ \E left \in {"none", "l95"} :
          wpc = [t \in Threads |-> IF t = 1 THEN left ELSE "none"]
    /\ queue_item = [t \in Threads |-> None]
    /\ result = [t \in Threads |-> None]
    /\ e = [t \in Threads |-> "None"]
    /\ spc = [c \in Callers |-> "idle"]
    /\ ret = [c \in Callers |-> NoRet]
    /\ probe = [c \in Callers |-> NoAnswer]
    /\ calls = [c \in Callers |-> 0]
    /\ behind = [c \in Callers |-> {}]
    /\ asked = [c \in Callers |-> None]
    /\ submitted = PlainTypes
    /\ uuid_repeats = FALSE
    /\ sandbox = NoRun

\* a run in which two uuid prefixes may coincide
CollisionInit ==
    /\ QueueInit
    /\ submitted = PlainTypes
    /\ uuid_repeats = TRUE
    /\ sandbox = NoRun

\* ---- session threads ----

\* Before it queues anything a session calls the language model itself:
\* handle_user_input -> RouterNode.__call__ -> AIService.master_router_decision,
\* process_report_selection -> AIService.decompose_query_for_reports.
\* The call touches nothing of the queue, so only the session that queues
\* next is followed through it.
DirectCall(c) ==
    /\ spc[c] = "idle"
    /\ c = issued + 1
    /\ spc' = [spc EXCEPT ![c] = "direct"]
    /\ UNCHANGED <<envvars, behind, asked, calls, probe,
                   queue, processing_status, current_processing, worker_thread,
                   is_processing, request_data, wvars, ret>>

\* the ids no add_to_queue has generated so far
UnissuedIds == (RequestIds \cup {MaxRequests + 1}) \ IssuedIds

\* a session asks get_queue_position about an id that no add_to_queue has
\* generated (lines 49-53)
Probe(c) ==
    /\ spc[c] = "idle"
    /\ c = issued + 1
    /\ \E rid \in UnissuedIds :
         probe' = [probe EXCEPT ![c] = get_queue_position(rid)]
    /\ spc' = [spc EXCEPT ![c] = "probed"]
    /\ UNCHANGED <<envvars, behind, asked, calls, queue, processing_status, current_processing,
                   worker_thread, is_processing, request_data, wvars, ret>>

\* the session drops the answer
ProbeReturn(c) ==
    /\ spc[c] = "probed"
    /\ probe' = [probe EXCEPT ![c] = NoAnswer]
    /\ spc' = [spc EXCEPT ![c] = "idle"]
    /\ UNCHANGED <<envvars, behind, asked, calls, queue, processing_status, current_processing,
                   worker_thread, is_processing, request_data, wvars, ret>>

\* a session calls get_result for any id, whatever the state of its
\* request (lines 178-184)
AskResult(c) ==
    /\ spc[c] = "idle"
    /\ c = issued + 1
    /\ \E rid \in RequestIds \cup {MaxRequests + 1} :
         /\ asked' = [asked EXCEPT ![c] = rid]
         /\ ret' = [ret EXCEPT ![c] = get_result(rid)]
    /\ spc' = [spc EXCEPT ![c] = "asked"]
    /\ UNCHANGED <<envvars, behind, calls, probe, queue, processing_status,
                   current_processing, worker_thread, is_processing,
                   request_data, wvars>>

\* the session drops the outcome
AskReturn(c) ==
    /\ spc[c] = "asked"
    /\ asked' = [asked EXCEPT ![c] = None]
    /\ ret' = [ret EXCEPT ![c] = NoRet]
    /\ spc' = [spc EXCEPT ![c] = "idle"]
    /\ UNCHANGED <<envvars, behind, calls, probe, queue, processing_status,
                   current_processing, worker_thread, is_processing,
                   request_data, wvars>>

\* the pipeline call returns to the session
DirectReturn(c) ==
    /\ spc[c] = "direct"
    /\ spc' = [spc EXCEPT ![c] = "l204"]
    /\ UNCHANGED <<envvars, behind, asked, calls, probe,
                   queue, processing_status, current_processing, worker_thread,
                   is_processing, request_data, wvars, ret>>

\* add_to_queue as it would be if the worker held a lock of the manager
\* during the backend call: queue.put waits until no request is executing
AddPut_behind_backend(c, type) ==
    /\ \A t \in Threads : wpc[t] # "l100"
    /\ spc[c] = "l204"
    /\ c = issued + 1
    /\ type \in submitted
    /\ \E rid \in uuid4_8 :
         request_data' = (c :> [request_id |-> rid, session_id |-> c, type |-> type])
                             @@ request_data
    /\ queue' = Append(queue, c)
    /\ behind' = [behind EXCEPT ![c] = IF queue = <<>> THEN Processing ELSE {}]
    /\ spc' = [spc EXCEPT ![c] = "l42"]
    /\ UNCHANGED <<envvars, asked, calls, probe,
                   processing_status, current_processing, worker_thread,
                   is_processing, wvars, ret>>

\* queue_aware_generation line 204 -> add_to_queue lines 32-41:
\* a fresh id, the QueueItem, queue.put
AddPut(c, type) ==
    /\ spc[c] = "l204"
    /\ c = issued + 1
    /\ type \in submitted
    /\ \E rid \in uuid4_8 :
         request_data' = (c :> [request_id |-> rid, session_id |-> c, type |-> type])
                             @@ request_data
    /\ queue' = Append(queue, c)
    /\ behind' = [behind EXCEPT ![c] = IF queue = <<>> THEN Processing ELSE {}]
    /\ spc' = [spc EXCEPT ![c] = "l42"]
    /\ UNCHANGED <<envvars, asked, calls, probe,
                   processing_status, current_processing, worker_thread,
                   is_processing, wvars, ret>>

\* add_to_queue line 42
AddRegister(c) ==
    /\ spc[c] = "l42"
    /\ processing_status' = (RidOf(c) :> QueueItem(c)) @@ processing_status
    /\ spc' = [spc EXCEPT ![c] = "l44"]
    /\ UNCHANGED <<envvars, behind, asked, calls, probe,
                   queue, current_processing, worker_thread, is_processing,
                   request_data, wvars, ret>>

\* add_to_queue line 44; on the else path add_to_queue returns (line 47)
AddCheck(c) ==
    /\ spc[c] = "l44"
    /\ spc' = [spc EXCEPT ![c] = IF ~is_processing THEN "l82" ELSE "l214"]
    /\ UNCHANGED <<envvars, behind, asked, calls, probe,
                   queue, processing_status, current_processing, worker_thread,
                   is_processing, request_data, wvars, ret>>

\* start_worker line 82
StartCheck(c) ==
    /\ spc[c] = "l82"
    /\ spc' = [spc EXCEPT ![c] =
                 IF worker_thread = None \/ ~is_alive(worker_thread)
                 THEN "l83" ELSE "l214"]
    /\ UNCHANGED <<envvars, behind, asked, calls, probe,
                   queue, processing_status, current_processing, worker_thread,
                   is_processing, request_data, wvars, ret>>

\* start_worker line 83
StartSetFlag(c) ==
    /\ spc[c] = "l83"
    /\ is_processing' = TRUE
    /\ spc' = [spc EXCEPT ![c] = "l84"]
    /\ UNCHANGED <<envvars, behind, asked, calls, probe,
                   queue, processing_status, current_processing, worker_thread,
                   request_data, wvars, ret>>

\* start_worker lines 84-85: a new thread running _process_queue
StartThread(c) ==
    /\ spc[c] = "l84"
    /\ worker_thread' = FreeSlot
    /\ wpc' = [wpc EXCEPT ![FreeSlot] = "l95"]
    /\ spc' = [spc EXCEPT ![c] = "l214"]
    /\ UNCHANGED <<envvars, behind, asked, calls, probe,
                   queue, processing_status, current_processing, is_processing,
                   request_data, queue_item, result, e, ret>>

\* what one turn of the poll loop of queue_aware_generation (lines 214-237)
\* does with the answer of get_queue_position: "fetch" = line 220,
\* "break" = leave the loop with result unbound, "sleep" = poll again
PollBranch(p) ==
    IF p.position = -1
    THEN IF p.status_text = "done" THEN "fetch" ELSE "break"
    ELSE "sleep"

\* queue_aware_generation lines 214-237: one turn of the poll loop; after a
\* break without line 220, line 242 raises UnboundLocalError
Poll(c) ==
    /\ spc[c] = "l214"
    /\ LET branch == PollBranch(get_queue_position(RidOf(c))) IN
       /\ branch # "sleep"
       /\ IF branch = "fetch"
          THEN spc' = [spc EXCEPT ![c] = "l220"] /\ ret' = ret
          ELSE /\ spc' = [spc EXCEPT ![c] = "returned"]
               /\ ret' = [ret EXCEPT ![c] =
                           [kind |-> "raise", value |-> None, msg |-> "UnboundLocalError"]]
    /\ UNCHANGED <<envvars, behind, asked, calls, probe,
                   queue, processing_status, current_processing, worker_thread,
                   is_processing, request_data, wvars>>

\* queue_aware_generation lines 220-242: get_result, then return result
FetchResult(c) ==
    /\ spc[c] = "l220"
    /\ ret' = [ret EXCEPT ![c] = get_result(RidOf(c))]
    /\ spc' = [spc EXCEPT ![c] = "returned"]
    /\ UNCHANGED <<envvars, behind, asked, calls, probe,
                   queue, processing_status, current_processing, worker_thread,
                   is_processing, request_data, wvars>>

\* the caller of queue_aware_generation takes the outcome; the script run ends
Leave(c) ==
    /\ spc[c] = "returned"
    /\ ret' = [ret EXCEPT ![c] = NoRet]
    /\ spc' = [spc EXCEPT ![c] = "gone"]
    /\ UNCHANGED <<envvars, behind, asked, calls, probe,
                   queue, processing_status, current_processing, worker_thread,
                   is_processing, request_data, wvars>>

\* ---- worker threads: QueueService._process_queue ----

\* line 95: queue.get returns the head of the queue
WGet(t) ==
    /\ wpc[t] = "l95"
    /\ queue # <<>>
    /\ queue_item' = [queue_item EXCEPT ![t] = Head(queue)]
    /\ queue' = Tail(queue)
    /\ wpc' = [wpc EXCEPT ![t] = "l97"]
    /\ UNCHANGED <<envvars, behind, asked, calls, probe,
                   processing_status, current_processing, worker_thread,
                   is_processing, request_data, result, e,
                   svars>>

\* line 95: queue.get(timeout=30) raises queue.Empty
WTimeout(t) ==
    /\ wpc[t] = "l95"
    /\ queue = <<>>
    /\ wpc' = [wpc EXCEPT ![t] = "l109"]
    /\ UNCHANGED <<envvars, behind, asked, calls, probe,
                   queue, processing_status, current_processing, worker_thread,
                   is_processing, request_data, queue_item,
                   result, e, svars>>

\* lines 97-98; the subscript of line 98 raises KeyError when line 42 of
\* add_to_queue has not run yet for this item
WMark(t) ==
    /\ wpc[t] = "l97"
    /\ current_processing' = RidOf(queue_item[t])
    /\ IF RidOf(queue_item[t]) \in DOMAIN processing_status
       THEN /\ processing_status' =
                  [processing_status EXCEPT ![RidOf(queue_item[t])].status = "processing"]
            /\ wpc' = [wpc EXCEPT ![t] = "l100"]
            /\ e' = e
       ELSE /\ e' = [e EXCEPT ![t] = "KeyError"]
            /\ wpc' = [wpc EXCEPT ![t] = "l112"]
            /\ processing_status' = processing_status
    /\ UNCHANGED <<envvars, behind, asked, calls, probe,
                   queue, worker_thread, is_processing, request_data,
                   queue_item, result, svars>>

\* QueueService._execute_request: what the call at line 100 can do for a type
_execute_request(item) ==
    IF request_data[item].type \in KnownTypes
    THEN {[kind |-> "return", value |-> Text(item), msg |-> "None"],
          [kind |-> "raise", value |-> None, msg |-> "boom"]}
    ELSE {[kind |-> "raise", value |-> None, msg |-> "unknown_type"]}

\* line 100: _execute_request returns or raises
WExecute(t) ==
    /\ wpc[t] = "l100"
    /\ \E out \in _execute_request(queue_item[t]) :
         IF out.kind = "return"
         THEN /\ result' = [result EXCEPT ![t] = out.value]
              /\ wpc' = [wpc EXCEPT ![t] = "l102"]
              /\ e' = e
         ELSE /\ e' = [e EXCEPT ![t] = out.msg]
              /\ wpc' = [wpc EXCEPT ![t] = "l112"]
              /\ result' = result
    /\ calls' = [calls EXCEPT ![queue_item[t]] = @ + 1]
    /\ UNCHANGED <<envvars, behind, asked, probe,
                   queue, processing_status, current_processing, worker_thread,
                   is_processing, request_data, queue_item,
                   svars>>

\* line 102
WComplete(t) ==
    /\ wpc[t] = "l102"
    /\ processing_status' =
           [processing_status EXCEPT ![RidOf(queue_item[t])].status = "completed"]
    /\ wpc' = [wpc EXCEPT ![t] = "l103"]
    /\ UNCHANGED <<envvars, behind, asked, calls, probe,
                   queue, current_processing, worker_thread, is_processing,
                   request_data, queue_item, result, e,
                   svars>>

\* lines 103-106, then back to the top of the loop.  After line 103 the
\* iteration writes only current_processing and the task counter of the
\* queue, which nothing reads; queue_item and result are rebound (lines 95,
\* 100) before they are read again.
WStoreResult(t) ==
    /\ wpc[t] = "l103"
    /\ processing_status' =
           [processing_status EXCEPT ![RidOf(queue_item[t])].result = result[t]]
    /\ current_processing' = None
    /\ queue_item' = [queue_item EXCEPT ![t] = None]
    /\ result' = [result EXCEPT ![t] = None]
    /\ wpc' = [wpc EXCEPT ![t] = "l95"]
    /\ UNCHANGED <<envvars, behind, asked, calls, probe,
                   queue, worker_thread, is_processing, request_data, e, svars>>

\* line 109
WEmpty(t) ==
    /\ wpc[t] = "l109"
    /\ is_processing' = FALSE
    /\ wpc' = [wpc EXCEPT ![t] = "l110"]
    /\ UNCHANGED <<envvars, behind, asked, calls, probe,
                   queue, processing_status, current_processing, worker_thread,
                   request_data, queue_item, result, e,
                   svars>>

\* line 110: break, _process_queue returns and the thread ends
WBreak(t) ==
    /\ wpc[t] = "l110"
    /\ wpc' = [wpc EXCEPT ![t] = "none"]
    /\ worker_thread' = AfterEnd(t)
    /\ UNCHANGED <<envvars, behind, asked, calls, probe,
                   queue, processing_status, current_processing,
                   is_processing, request_data, queue_item, result, e, svars>>

\* lines 111-113: queue_item is bound whenever the handler runs; the
\* subscript of line 113 raises KeyError out of the handler, and out of
\* _process_queue, when the item is still unregistered
WHandler(t) ==
    /\ wpc[t] = "l112"
    /\ IF RidOf(queue_item[t]) \in DOMAIN processing_status
       THEN /\ processing_status' =
                  [processing_status EXCEPT ![RidOf(queue_item[t])].status = "error"]
            /\ wpc' = [wpc EXCEPT ![t] = "l114"]
            /\ UNCHANGED <<queue_item, result, e>>
            /\ worker_thread' = worker_thread
       ELSE /\ wpc' = [wpc EXCEPT ![t] = "none"]
            /\ worker_thread' = AfterEnd(t)
            /\ queue_item' = [queue_item EXCEPT ![t] = None]
            /\ result' = [result EXCEPT ![t] = None]
            /\ e' = [e EXCEPT ![t] = "None"]
            /\ processing_status' = processing_status
    /\ UNCHANGED <<envvars, behind, asked, calls, probe,
                   queue, current_processing, is_processing,
                   request_data, svars>>

\* lines 114-115, then back to the top of the loop
WStoreError(t) ==
    /\ wpc[t] = "l114"
    /\ processing_status' =
           [processing_status EXCEPT ![RidOf(queue_item[t])].error = e[t]]
    /\ current_processing' = None
    /\ queue_item' = [queue_item EXCEPT ![t] = None]
    /\ e' = [e EXCEPT ![t] = "None"]
    /\ wpc' = [wpc EXCEPT ![t] = "l95"]
    /\ UNCHANGED <<envvars, behind, asked, calls, probe,
                   queue, worker_thread, is_processing, request_data, result, svars>>

\* ---- specification ----

SessionStep(c) ==
    \/ ProbeReturn(c)
    \/ AskReturn(c)
    \/ DirectReturn(c)
    \/ \E type \in InputTypes : AddPut(c, type)
    \/ AddRegister(c)
    \/ AddCheck(c)
    \/ StartCheck(c)
    \/ StartSetFlag(c)
    \/ StartThread(c)
    \/ Poll(c)
    \/ FetchResult(c)
    \/ Leave(c)

WorkerStep(t) ==
    \/ WGet(t)
    \/ WTimeout(t)
    \/ WMark(t)
    \/ WExecute(t)
    \/ WComplete(t)
    \/ WStoreResult(t)
    \/ WEmpty(t)
    \/ WBreak(t)
    \/ WHandler(t)
    \/ WStoreError(t)

Next ==
    \/ \E c \in Callers : Probe(c)
    \/ \E c \in Callers : AskResult(c)
    \/ \E c \in Callers : DirectCall(c)
    \/ \E c \in Callers : SessionStep(c)
    \/ \E t \in Threads : WorkerStep(t)

Spec == Init /\ [][Next]_vars

\* the same threads in a run that submits every operation tag
OperationsSpec == OperationsInit /\ [][Next]_vars

\* the same threads in a run where uuid prefixes may coincide
CollisionSpec == CollisionInit /\ [][Next]_vars

\* the same threads on a manager that has served requests before
WarmSpec == WarmInit /\ [][Next]_vars

\* WarmSpec under the scheduling of FairSpec
WarmFairSpec ==
    /\ WarmSpec
    /\ \A c \in Callers : WF_vars(SessionStep(c))
    /\ \A t \in Threads : WF_vars(WorkerStep(t))

\* Fair scheduling of threads that are inside a call, a backend that always
\* returns or raises, and the 30 s timeout of queue.get; a session is never
\* obliged to start a new call.
FairSpec ==
    /\ Spec
    /\ \A c \in Callers : WF_vars(SessionStep(c))
    /\ \A t \in Threads : WF_vars(WorkerStep(t))

\* OperationsSpec under the scheduling of FairSpec
OperationsFairSpec ==
    /\ OperationsSpec
    /\ \A c \in Callers : WF_vars(SessionStep(c))
    /\ \A t \in Threads : WF_vars(WorkerStep(t))

\* ---- execute_generated_code (src/src/utils/text_utils.py) ----

\* everything but the run of execute_generated_code
queuevars == <<queue, processing_status, current_processing, worker_thread,
               is_processing, request_data, wvars, svars, probe, asked, calls, behind,
               submitted, uuid_repeats>>

\* exceptions that derive from BaseException but not from Exception
BaseExceptions == {"SystemExit", "KeyboardInterrupt"}

\* what exec does with the wrapped code: it runs to the end, a statement
\* raises an Exception, the text does not compile, or a statement raises a
\* BaseException (sys.exit(), exit(), raise KeyboardInterrupt)
Behaviours == {"ok", "Exception", "SyntaxError"} \cup BaseExceptions

\* a code string by what execute_generated_code looks at: whether it
\* contains "plt.show()" and "plt.figure(", whether it is blank, what it
\* does when run; and of the run: whether what it printed contains the word
\* "Ошибка", and whether the plot file exists afterwards
Codes ==
    {in \in [show : BOOLEAN, figure : BOOLEAN, blank : BOOLEAN, runs : Behaviours,
              says_error : BOOLEAN, saved : BOOLEAN] :
        /\ in.blank => (~in.show /\ ~in.figure /\ in.runs = "ok" /\ ~in.says_error)
        /\ in.runs = "SyntaxError" => ~in.says_error
        /\ in.saved => in.show}

\* the code string as lines 37-49 leave it
Rewritten(in) ==
    [show |-> FALSE, figure |-> in.figure \/ in.show, savefig |-> in.show,
     blank |-> in.blank]

\* a call of execute_generated_code with some code string (line 30-34)
ExecInit ==
    /\ QueueInit
    /\ submitted = PlainTypes
    /\ uuid_repeats = FALSE
    /\ \E in \in Codes :
         sandbox = [pc |-> "l37", in |-> in, has_plot |-> FALSE, plot_path |-> "None",
                    code |-> [show |-> in.show, figure |-> in.figure,
                              savefig |-> FALSE, blank |-> in.blank],
                    output_text |-> "None", exc |-> "None", ret |-> [kind |-> "none"]]

\* lines 37-49: plt.show() becomes plt.savefig(<unique name>)
ExecRewrite ==
    /\ sandbox.pc = "l37"
    /\ sandbox' = IF sandbox.in.show
                  THEN [sandbox EXCEPT !.pc = "l58", !.has_plot = TRUE,
                                       !.plot_path = "plot.png",
                                       !.code = Rewritten(sandbox.in)]
                  ELSE [sandbox EXCEPT !.pc = "l58"]
    /\ UNCHANGED queuevars

\* lines 58-69: the code is wrapped in try/except Exception and run by exec
\* with stdout redirected.  The wrapper prints "Ошибка при выполнении
\* анализа: ..." for an Exception; a SyntaxError comes out of exec itself;
\* a BaseException passes the wrapper
ExecRun ==
    /\ sandbox.pc = "l58"
    /\ sandbox' =
         CASE sandbox.in.runs = "ok" ->
                [sandbox EXCEPT !.pc = "l71",
                    !.output_text = IF sandbox.in.says_error THEN "stdout_with_error_word"
                                    ELSE "stdout"]
           [] sandbox.in.runs = "Exception" ->
                [sandbox EXCEPT !.pc = "l71", !.output_text = "analysis_error"]
           [] OTHER ->
                [sandbox EXCEPT !.pc = "raised", !.exc = sandbox.in.runs]
    /\ UNCHANGED queuevars

\* lines 71-78: the plot path is kept only if the file exists and the output
\* does not contain "Ошибка"; return of the triple
ExecReturn ==
    /\ sandbox.pc = "l71"
    /\ LET path == IF /\ sandbox.has_plot
                      /\ sandbox.in.saved
                      /\ sandbox.output_text = "stdout"
                   THEN sandbox.plot_path ELSE "None" IN
       sandbox' = [sandbox EXCEPT !.pc = "done", !.plot_path = path,
                      !.ret = [kind |-> "return",
                               triple |-> <<sandbox.output_text, path, sandbox.code>>]]
    /\ UNCHANGED queuevars

\* lines 80-81: except Exception returns ("Ошибка при выполнении кода: ...",
\* None, code); any other exception leaves the function
ExecHandler ==
    /\ sandbox.pc = "raised"
    /\ sandbox' = IF sandbox.exc \in BaseExceptions
                  THEN [sandbox EXCEPT !.pc = "done",
                           !.ret = [kind |-> "raise", exc |-> sandbox.exc]]
                  ELSE [sandbox EXCEPT !.pc = "done", !.exc = "None",
                           !.ret = [kind |-> "return",
                                    triple |-> <<"code_error", "None", sandbox.code>>]]
    /\ UNCHANGED queuevars

ExecNext == ExecRewrite \/ ExecRun \/ ExecReturn \/ ExecHandler

ExecSpec == ExecInit /\ [][ExecNext]_vars

TypeOK ==
    /\ DOMAIN processing_status \subseteq (1..issued) \cup EarlierIds
    /\ \A r \in DOMAIN processing_status :
          processing_status[r].status \in {"waiting", "processing", "completed", "error"}
    /\ \A c \in Callers : calls[c] \in 0..1

\* ---- properties ----

\* the backend itself failed for the item the handler of thread t is serving
BackendRaised(t) ==
    /\ wpc[t] \in {"l112", "l114"}
    /\ e[t] \in {"boom", "unknown_type"}

\* C1: in every reachable state at most one record of the status table has
\* status 'processing'
C1_SingleProcessing == Cardinality(Processing) <= 1

\* C2: every request whose add_to_queue has returned eventually has status
\* 'completed' or 'error' (fair threads, a backend that returns or raises)
C2_EveryRequestTerminates ==
    \A r \in RequestIds : (spc[r] = "l214") ~> (StatusOf(r) \in Terminal)

\* C3: a request leaves 'waiting' only when every request appended to the
\* queue before it has left 'waiting' (ids are numbered in append order)
C3_FifoService ==
    [][\A a, b \in DOMAIN request_data :
          (a < b /\ StatusOf(b) = "waiting" /\ StatusOf(b)' # "waiting")
              => StatusOf(a)' # "waiting"]_vars

\* C4: at most one call into the language model is in progress at any time,
\* counting the worker threads and the session threads
C4_OneModelCall ==
    Cardinality({t \in Threads : WorkerInModel(t)})
        + Cardinality({c \in Callers : SessionInModel(c)}) <= 1

AllowedTransitions ==
    {<<"waiting", "processing">>, <<"processing", "completed">>,
     <<"processing", "error">>}

\* C5: the status of a record changes only along waiting -> processing ->
\* completed or waiting -> processing -> error
C5_StatusMonotonic ==
    [][\A r \in DOMAIN processing_status :
          \/ StatusOf(r)' = StatusOf(r)
          \/ <<StatusOf(r), StatusOf(r)'>> \in AllowedTransitions]_vars

\* C6: once a record is 'completed' or 'error', what get_queue_position and
\* get_result answer for it never changes again
C6_TerminalReadsStable ==
    [][\A r \in DOMAIN processing_status :
          processing_status[r].status \in Terminal
              => /\ get_queue_position(r)' = get_queue_position(r)
                 /\ get_result(r)' = get_result(r)]_vars

\* C7, first part: the handler of a backend failure for N changes only N's
\* record (status 'error', then the failure text) and the thread goes back
\* to the top of its loop
C7_HandlerFrame ==
    [][\A t \in Threads :
          (BackendRaised(t) /\ wpc'[t] # wpc[t])
              => /\ \A r \in DOMAIN processing_status \ {queue_item[t]} :
                       processing_status'[r] = processing_status[r]
                 /\ processing_status'[queue_item[t]].status = "error"
                 /\ wpc[t] = "l114" =>
                       /\ processing_status'[queue_item[t]].error = e[t]
                       /\ wpc'[t] = "l95"]_vars

\* C7, second part: a request that is in the queue when the backend raises
\* for N is processed afterwards to 'completed' or 'error'
C7_QueuedBehindTerminate ==
    \A t \in Threads : \A b \in RequestIds :
        (BackendRaised(t) /\ IndexOf(queue, b, 1) > 0) ~> (StatusOf(b) \in Terminal)

\* C7: a backend failure for N touches only N's record, the worker loop
\* keeps running, and the requests queued behind N are processed
C7_ErrorIsolation == C7_HandlerFrame /\ C7_QueuedBehindTerminate

\* C8: when its request ended in 'error', queue_aware_generation raises an
\* error whose message is the error detail stored on the record
C8_WaitRaisesStoredDetail ==
    \A c \in Callers :
        (spc[c] = "returned" /\ StatusOf(c) = "error"
            /\ processing_status[RidOf(c)].error # "None")
        => (ret[c].kind = "raise" /\ ret[c].msg = processing_status[RidOf(c)].error)

\* C9: when queue_aware_generation returns a value, it is the text the
\* backend returned for that request
C9_WaitReturnsBackendText ==
    \A c \in Callers :
        (spc[c] = "returned" /\ ret[c].kind = "return") => ret[c].value = Text(c)

\* the waiting requests enqueued at or before r
WaitingUpTo(r) == {a \in DOMAIN request_data : a <= r /\ StatusOf(a) = "waiting"}

\* C10: for a record with status 'waiting' get_queue_position answers the
\* number of waiting requests enqueued at or before it, which is at least 1
C10_WaitingPosition ==
    \A r \in DOMAIN processing_status :
        processing_status[r].status = "waiting"
            => /\ get_queue_position(r).position = Cardinality(WaitingUpTo(r))
               /\ get_queue_position(r).position >= 1

\* C11: of two registered requests that both have status 'waiting', the one
\* enqueued first is reported at a strictly smaller position
C11_PositionOrder ==
    \A a, b \in DOMAIN request_data :
        (/\ a < b
         /\ RidOf(a) \in DOMAIN processing_status
         /\ RidOf(b) \in DOMAIN processing_status
         /\ processing_status[RidOf(a)].status = "waiting"
         /\ processing_status[RidOf(b)].status = "waiting")
        => get_queue_position(RidOf(a)).position < get_queue_position(RidOf(b)).position

\* the request of call c carries a type tag that _execute_request does not know
UnknownTag(c) ==
    c \in DOMAIN request_data /\ request_data[c].type \notin KnownTypes

\* C12: a request with an unrecognised type tag, once add_to_queue has
\* returned, ends in status 'error' with the detail that names the tag, and
\* the caller waiting on it leaves queue_aware_generation
C12_UnknownTagResolved ==
    \A c \in Callers :
        (spc[c] = "l214" /\ UnknownTag(c))
            ~> (/\ StatusOf(c) = "error"
                /\ processing_status[RidOf(c)].error = "unknown_type"
                /\ spc[c] \in {"returned", "gone"})

\* C13: _execute_request never answers "unknown request type" for an item
\* whose type is one of the eight operations of the backend boundary
C13_BoundaryDispatched ==
    \A t \in Threads :
        (wpc[t] = "l112" /\ e[t] = "unknown_type")
            => request_data[queue_item[t]].type \notin BoundaryOperations

\* call c has run line 42 of add_to_queue
Registered(c) == spc[c] \in {"l44", "l82", "l83", "l84", "l214", "l220", "returned", "gone"}

\* C14: the request ids of any two add_to_queue calls differ, and the record
\* a call has registered stays the record of that call (it is not overwritten
\* by the record of another call)
C14_FreshRecord ==
    /\ \A a, b \in DOMAIN request_data : a # b => RidOf(a) # RidOf(b)
    /\ \A c \in Callers :
          Registered(c) => /\ RidOf(c) \in DOMAIN processing_status
                           /\ processing_status[RidOf(c)].session_id = c

\* call c is inside add_to_queue (lines 21-47, start_worker included)
InAddToQueue(c) == spc[c] \in {"l204", "l42", "l44", "l82", "l83", "l84"}

AddReturned(c) == spc[c] \in {"l214", "l220", "returned", "gone"}

\* C16: the step that puts the item of call c appends it behind everything
\* pending; the step that registers it creates the record with status
\* 'waiting'; at the step where add_to_queue returns r the table has under r
\* a record with the caller's session id and request type; and from then
\* on get_queue_position(r) does not answer not-found
C16_ReturnedIdIsRegistered ==
    [][\A c \in Callers :
          /\ (spc[c] = "l204" /\ spc'[c] = "l42") => queue' = Append(queue, c)
          /\ (spc[c] = "l42" /\ spc'[c] = "l44")
                => processing_status'[RidOf(c)].status = "waiting"
          /\ (InAddToQueue(c) /\ AddReturned(c)')
                => /\ RidOf(c) \in DOMAIN processing_status'
                   /\ processing_status'[RidOf(c)].session_id = request_data[c].session_id
                   /\ processing_status'[RidOf(c)].type = request_data[c].type
          /\ AddReturned(c)'
                => get_queue_position(RidOf(c))'.status_text # "not_found"]_vars

\* C17, the part that holds: _execute_request is never invoked a second
\* time for the same queue item
C17_AtMostOnce == \A c \in Callers : calls[c] <= 1

\* C17: _execute_request is invoked exactly once for each enqueued request:
\* never twice, and a request that has reached 'completed' or 'error' has
\* had its one invocation
C17_ExecutedExactlyOnce ==
    /\ C17_AtMostOnce
    /\ \A c \in DOMAIN request_data : StatusOf(c) \in Terminal => calls[c] = 1

\* C18: the step in which get_queue_position is called with an id that no
\* add_to_queue has generated answers (-1, "Запрос не найден") and leaves
\* the queue and the status table as they were
C18_UnknownIdNotFound ==
    [][\A c \in Callers :
          (spc[c] = "idle" /\ spc'[c] = "probed")
              => /\ probe'[c] = [position |-> -1, status_text |-> "not_found"]
                 /\ queue' = queue
                 /\ processing_status' = processing_status]_vars

\* C18 witness: the call was made while requests were pending and
\* registered, and has got its answer
C18_Witness ==
    \E c \in Callers :
        /\ spc[c] = "probed"
        /\ probe[c] # NoAnswer
        /\ queue # <<>>
        /\ processing_status # <<>>

\* the worker threads that are alive
AliveWorkers == {t \in Threads : wpc[t] # "none"}

\* C20: at most one worker thread is alive in any reachable state
C20_OneWorkerAlive == Cardinality(AliveWorkers) <= 1

\* C19 without the code strings that raise a BaseException: holds
C19_TripleForExceptions ==
    (sandbox.pc = "done" /\ sandbox.in.runs \notin BaseExceptions)
        => /\ sandbox.ret.kind = "return"
           /\ sandbox.ret.triple[2] \in {"None", "plot.png"}
           /\ sandbox.in.runs # "ok"
                 => sandbox.ret.triple[1] \in {"analysis_error", "code_error"}

\* C19: whenever execute_generated_code is over it has returned a triple
\* (output text, plot path or None, code), and if the generated code raised,
\* the output text is an error report
C19_AlwaysATriple ==
    sandbox.pc = "done"
        => /\ sandbox.ret.kind = "return"
           /\ sandbox.ret.triple[2] \in {"None", "plot.png"}
           /\ sandbox.in.runs # "ok"
                 => sandbox.ret.triple[1] \in {"analysis_error", "code_error"}

\* C21: a worker thread ends only by the break of line 110, after queue.get
\* timed out and line 109 cleared is_processing; never by an exception
C21_StopsOnlyByTimeout ==
    [][\A t \in Threads :
          (wpc[t] # "none" /\ wpc'[t] = "none")
              => (wpc[t] = "l110" /\ ~is_processing)]_vars

\* the manager is idle after a timeout: the thread of worker_thread has
\* ended, no thread is alive, is_processing is False, nothing is queued
IdleAfterTimeout ==
    /\ worker_thread = Ended
    /\ AliveWorkers = {}
    /\ ~is_processing
    /\ queue = <<>>

\* C22: the request of the first add_to_queue that begins on a manager
\* that is idle after a timeout reaches 'completed' or 'error' (fair
\* threads, a backend that returns or raises)
C22_RestartAfterIdle ==
    \A c \in Callers :
        (spc[c] = "l204" /\ IdleAfterTimeout) ~> (StatusOf(c) \in Terminal)

\* C23: if the item of B was put on the queue while A was 'processing' and
\* nothing else was pending, then as long as A is 'processing' a
\* get_queue_position(B) made after add_to_queue returned answers position
\* 1 in the queue, and B has left 'waiting' only if A is 'completed' or
\* 'error'
C23_WaitsBehindProcessing ==
    \A b \in Callers : \A a \in behind[b] :
        /\ (AddReturned(b) /\ processing_status[a].status = "processing")
              => get_queue_position(RidOf(b)) = [position |-> 1, status_text |-> "in_queue"]
        /\ StatusOf(b) # "waiting" => processing_status[a].status \in Terminal

\* C24, first part: a session leaves the poll loop (lines 213-237) only in
\* a step in which its request is 'completed' or 'error'
C24_LeavesOnTerminal ==
    [][\A c \in Callers :
          (spc[c] = "l214" /\ spc'[c] # "l214") => StatusOf(c) \in Terminal]_vars

\* C24, second part: a session in the poll loop eventually returns or
\* raises (fair threads, a backend that returns or raises)
C24_PollEnds ==
    \A c \in Callers : (spc[c] = "l214") ~> (spc[c] \in {"returned", "gone"})

\* C24: queue_aware_generation polls until it observes a terminal status
\* of its request, and eventually returns or raises
C24_PollsUntilTerminal == C24_LeavesOnTerminal /\ C24_PollEnds

\* C25: a record has a result only when its status is 'completed' and an
\* error detail only when its status is 'error' (so never both)
C25_ResultXorError ==
    \A r \in DOMAIN processing_status :
        /\ processing_status[r].result # None => processing_status[r].status = "completed"
        /\ processing_status[r].error # "None" => processing_status[r].status = "error"

\* the step is taken by a session thread: a statement of add_to_queue,
\* start_worker, get_queue_position or get_result, or the caller's own
SessionMoved == spc' # spc

\* C26: a step of a session thread leaves every existing record as it is,
\* and the queue as it is or with one item appended; and no step removes a
\* record
C26_OnlyWorkerUpdates ==
    [][/\ DOMAIN processing_status \subseteq DOMAIN processing_status'
       /\ SessionMoved =>
             /\ \A r \in DOMAIN processing_status :
                   processing_status'[r] = processing_status[r]
             /\ \/ queue' = queue
                \/ \E c \in Callers : queue' = Append(queue, c)]_vars

\* the status of the record under id r, "absent" when the table has none
RecordStatus(r) ==
    IF r \in DOMAIN processing_status THEN processing_status[r].status ELSE "absent"

\* C27: a get_result call changes neither the queue nor the status table;
\* for an id that is absent, 'waiting' or 'processing' it returns None; it
\* raises only for status 'error'; and what it returns for status
\* 'completed' is the stored result, the only case in which it returns one
C27_GetResultByStatus ==
    [][\A c \in Callers :
          (spc[c] = "idle" /\ spc'[c] = "asked")
              => LET r == asked'[c]
                     out == ret'[c] IN
                 /\ queue' = queue
                 /\ processing_status' = processing_status
                 /\ RecordStatus(r) \in {"absent", "waiting", "processing"}
                       => (out.kind = "return" /\ out.value = None)
                 /\ out.kind = "raise" => RecordStatus(r) = "error"
                 /\ RecordStatus(r) = "completed"
                       => (out.kind = "return" /\ out.value = processing_status[r].result)
                 /\ (out.kind = "return" /\ out.value # None)
                       => RecordStatus(r) = "completed"]_vars

\* C27 witness: get_result has answered None for a request that is being
\* processed
C27_Witness ==
    \E c \in Callers :
        /\ spc[c] = "asked"
        /\ RecordStatus(asked[c]) = "processing"
        /\ ret[c] = [kind |-> "return", value |-> None, msg |-> "None"]

\* C28: no status update of a worker (line 98, line 113) is made for an id
\* that is missing from the status table, that is, no worker ever has the
\* KeyError of such a subscript in hand
C28_RecordPresent == \A t \in Threads : e[t] # "KeyError"

\* the item of call c is in the queue
InQueue(c) == \E i \in 1..Len(queue) : queue[i] = c

\* a worker's queue.get has timed out and the thread has not ended yet
\* (lines 108-110)
WorkerLeaving == \E t \in Threads : wpc[t] \in {"l109", "l110"}

\* C29: an item that is in the queue while a worker whose queue.get timed
\* out is still on its way out is eventually taken off the queue by a
\* worker (fair threads)
C29_LateItemPickedUp ==
    \A c \in Callers : (InQueue(c) /\ WorkerLeaving) ~> ~InQueue(c)

\* C30: when is_processing is True and no session is inside add_to_queue
\* or start_worker, a worker thread is alive
C30_FlagImpliesWorker ==
    (is_processing /\ \A c \in Callers : ~InAddToQueue(c)) => AliveWorkers # {}

====
